---- MODULE Spec2Model ----
(***************************************************************************)
(* df2pdf: df2table and df2heatmap (src/df2pdf.py), and the process-wide   *)
(* state of the plotting library they act on: rcParams' font entries and   *)
(* pyplot's registry of open figures, whose last entry is the current      *)
(* figure.                                                                 *)
(*                                                                         *)
(* A dataset (pandas.DataFrame) is a sequence of columns, each a sequence  *)
(* of integers, all of the same length.  Lengths such as col_width=1.8 are *)
(* kept in tenths.  A quotient is kept as the pair of its operands, so     *)
(* that 0/0 (NaN) and x/0 (inf) are values like any other, as in numpy.    *)
(***************************************************************************)
EXTENDS Integers, Sequences, FiniteSets

VARIABLES rcParams, figs, nfig, pc, last

vars == <<rcParams, figs, nfig, pc, last>>

\* ---------------------------------------------------------------- bounds
MaxRows == 5
MaxLen == 4
MaxCols == 2
MaxVal == 2
MaxFigs == 2

\* ------------------------------------------------------- optional values
NoneVal == [none |-> TRUE, seq |-> <<>>]
Some(s) == [none |-> FALSE, seq |-> s]

\* ------------------------------------------------------------- quotients
Div(n, d) == [num |-> n, den |-> d]
IsNaN(q) == q.den = 0 /\ q.num = 0
IsFinite(q) == q.den # 0
QEq(q, n, d) == q.den # 0 /\ d # 0 /\ q.num * d = n * q.den
InUnit(q) ==
    \/ q.den > 0 /\ 0 <= q.num /\ q.num <= q.den
    \/ q.den < 0 /\ 0 >= q.num /\ q.num >= q.den

\* ---------------------------------------------------------- column tools
ColMin(col) == CHOOSE v \in {col[i] : i \in 1..Len(col)} :
                   \A j \in 1..Len(col) : v <= col[j]
ColMax(col) == CHOOSE v \in {col[i] : i \in 1..Len(col)} :
                   \A j \in 1..Len(col) : v >= col[j]
NLess(col, i) == Cardinality({j \in 1..Len(col) : col[j] < col[i]})
NEqual(col, i) == Cardinality({j \in 1..Len(col) : col[j] = col[i]})

\* DataFrame.rank(method='first'): ties ranked in order of appearance.
RankFirst2(col, i) ==
    2 * (NLess(col, i) + Cardinality({j \in 1..i : col[j] = col[i]}))

\* DataFrame.rank() with pandas' default method='average': a group of equal
\* values occupies the positions NLess+1 .. NLess+NEqual of the sorted
\* column and each member gets their mean.  Rank2 is twice that mean.
Rank2(col, i) == (NLess(col, i) + 1) + (NLess(col, i) + NEqual(col, i))

\* the same over N instead of N - 1
PercentileDenomOffByOne(col, i) == Div(Rank2(col, i) - 2, 2 * Len(col))

\* (data.rank() - 1) / (data.shape[0] - 1), one cell
PercentileCell(col, i) == Div(Rank2(col, i) - 2, 2 * (Len(col) - 1))

\* the same over the maximum instead of the range
RangeCellByMax(col, i) == Div(col[i] - ColMin(col), ColMax(col))

\* (data - data.min()) / (data.max() - data.min()), one cell
RangeCell(col, i) == Div(col[i] - ColMin(col), ColMax(col) - ColMin(col))

\* the same with 'percentile' as the fallback of the else branch
NormalizeDefaulting(data, normalize) ==
    IF normalize = "range"
    THEN [ok |-> TRUE,
          df |-> [c \in 1..Len(data) |->
                    [i \in 1..Len(data[c]) |-> RangeCell(data[c], i)]]]
    ELSE [ok |-> TRUE,
          df |-> [c \in 1..Len(data) |->
                    [i \in 1..Len(data[c]) |-> PercentileCell(data[c], i)]]]

\* the if / elif / else over `normalize`
Normalize(data, normalize) ==
    IF normalize = "percentile"
    THEN [ok |-> TRUE,
          df |-> [c \in 1..Len(data) |->
                    [i \in 1..Len(data[c]) |-> PercentileCell(data[c], i)]]]
    ELSE IF normalize = "range"
    THEN [ok |-> TRUE,
          df |-> [c \in 1..Len(data) |->
                    [i \in 1..Len(data[c]) |-> RangeCell(data[c], i)]]]
    ELSE [ok |-> FALSE, df |-> <<>>]

\* ------------------------------------------------------ the plotting state
\* matplotlib's defaults for the two rcParams entries df2heatmap writes
RcDefault == [family |-> "sans-serif", sans_serif |-> "DejaVu Sans"]

\* rcParams['font.family'] = ...; rcParams['font.sans-serif'] = ...
SetFont(rc) ==
    [rc EXCEPT !.family = "sans-serif", !.sans_serif = "Century Gothic"]

\* plt.subplots(): a new figure, registered and made current
Subplots(fs, n) == [fig |-> n + 1, figs |-> Append(fs, n + 1), nfig |-> n + 1]

\* plt.gcf(), as plt.tick_params / tight_layout / savefig reach it: the
\* current figure, and a new one when no figure is open
Gcf(fs, n) ==
    IF fs = <<>> THEN Subplots(fs, n)
    ELSE [fig |-> fs[Len(fs)], figs |-> fs, nfig |-> n]

\* plt.close(): the current figure leaves the registry
CloseCurrent(fs) == IF fs = <<>> THEN fs ELSE SubSeq(fs, 1, Len(fs) - 1)

\* plt.show(): "kept" returns at once (non-interactive backend), "closed"
\* returns once the user has closed every preview window, "fail" raises
AfterShow(fs, how) == IF how = "closed" THEN <<>> ELSE fs

IsOpen(f, fs) == \E k \in 1..Len(fs) : fs[k] = f
Opened(fs) == {fs[k] : k \in 1..Len(fs)}

\* what a call leaves behind for its caller, and what it did on the way
\* (rc0 and figs0: rcParams and the open figures as the call found them)
Result(fn, args, outcome, effects, fig, made, cmap, df, size, grid, rc0, figs0) ==
    [fn |-> fn, args |-> args, outcome |-> outcome, effects |-> effects,
     fig |-> fig, made |-> made, cmap |-> cmap, df_plot |-> df,
     size |-> size, grid |-> grid, rc0 |-> rc0, figs0 |-> figs0]

NoCmap == [name |-> "", stops |-> <<>>]
NoSize == [width |-> 0, height |-> 0]
NoGrid == [nrows |-> 0, ncols |-> 0, cells |-> {}]
NoArgs == [data |-> <<>>]
NoCall ==
    Result("", NoArgs, "", <<>>, 0, {}, NoCmap, <<>>, NoSize, NoGrid, RcDefault, <<>>)

\* ---------------------------------------------------------------- df2table
\* data.reset_index(): the index becomes the first column
ResetIndex(data) ==
    <<[i \in 1..Len(data[1]) |-> i]>> \o data

\* data.shape
Shape(data) == [rows |-> Len(data[1]), cols |-> Len(data)]

\* the same without the + [0, 1] for the row of column labels
FigSizeNoHeader(shape, col_width, row_height) ==
    [width |-> shape.cols * col_width, height |-> shape.rows * row_height]

\* (np.array(data.shape[::-1]) + np.array([0, 1])) * np.array([col_width, row_height])
FigSize(shape, col_width, row_height) ==
    [width |-> (shape.cols + 0) * col_width,
     height |-> (shape.rows + 1) * row_height]

\* ax.table(cellText=data.values, colLabels=data.columns): row 0 holds the
\* column labels, rows 1..R the values
Table(data) ==
    [nrows |-> Len(data[1]) + 1, ncols |-> Len(data),
     cells |-> (0..Len(data[1])) \X (0..(Len(data) - 1))]

Df2tableBody(rc, fs, n, a, env) ==
    LET data == ResetIndex(a.data)
        size == FigSize(Shape(data), a.col_width, a.row_height)
        sp   == Subplots(fs, n)
        grid == Table(data)
        drawn == <<"subplots", "table", "title", "tight_layout">>
        R(outcome, effects, figs1) ==
            [rc |-> rc, figs |-> figs1, nfig |-> sp.nfig,
             res |-> Result("df2table", a, outcome, effects, sp.fig,
                            {sp.fig}, NoCmap, <<>>, size, grid, rc, fs)]
    IN  IF a.save_path # "None" /\ env.save = "fail"
        THEN R("OSError", drawn, sp.figs)
        ELSE LET saved == IF a.save_path # "None"
                          THEN Append(drawn, "savefig") ELSE drawn
             IN  IF a.show_table /\ env.show = "fail"
                 THEN R("RuntimeError", saved, sp.figs)
                 ELSE LET shown == IF a.show_table
                                   THEN Append(saved, "show") ELSE saved
                          figs1 == IF a.show_table
                                   THEN AfterShow(sp.figs, env.show)
                                   ELSE sp.figs
                      IN  R("ok", Append(shown, "close"), CloseCurrent(figs1))

\* -------------------------------------------------------------- df2heatmap
\* the same without the comparison of the lengths
LenCheckLenient(nodes, colors) ==
    IF nodes.none \/ colors.none THEN "TypeError" ELSE "ok"

\* assert len(colors) == len(nodes), "..."; len(None) raises TypeError
LenCheck(nodes, colors) ==
    IF nodes.none \/ colors.none THEN "TypeError"
    ELSE IF Len(colors.seq) = Len(nodes.seq) THEN "ok"
    ELSE "AssertionError: Length of 'colors' and 'nodes' must be the same"

Zip(s, t) ==
    [k \in 1..(IF Len(s) < Len(t) THEN Len(s) ELSE Len(t)) |-> <<s[k], t[k]>>]

\* if (nodes is not None) and (colors is not None): cmap = from_list(...)
BuildCmap(nodes, colors, cmap) ==
    IF ~nodes.none /\ ~colors.none
    THEN [name |-> "mycmap", stops |-> Zip(nodes.seq, colors.seq)]
    ELSE [name |-> cmap, stops |-> <<>>]

\* the same without the else branch: a new figure whatever ax is
HeatmapAxesAlwaysNew(ax, fs, n) ==
    [fig |-> n + 1, figs |-> Append(fs, n + 1), nfig |-> n + 1,
     made |-> {n + 1}]

\* if ax is None: fig, ax = plt.subplots(...) else: fig = ax.get_figure()
\* (an axis is named by the number of its figure, 0 is None)
HeatmapAxes(ax, fs, n) ==
    IF ax = 0
    THEN [fig |-> Subplots(fs, n).fig, figs |-> Subplots(fs, n).figs,
          nfig |-> Subplots(fs, n).nfig, made |-> {Subplots(fs, n).fig}]
    ELSE [fig |-> ax, figs |-> fs, nfig |-> n, made |-> {}]

Df2heatmapBody(rc, fs, n, a, env) ==
    LET chk == LenCheck(a.nodes, a.colors)
        Fail(rc1, figs1, n1, outcome, effects, fig, made, cmap) ==
            [rc |-> rc1, figs |-> figs1, nfig |-> n1,
             res |-> Result("df2heatmap", a, outcome, effects, fig, made,
                            cmap, <<>>, NoSize, NoGrid, rc, fs)]
    IN  IF chk # "ok"
        THEN Fail(rc, fs, n, chk, <<>>, 0, {}, NoCmap)
        ELSE
        LET rc1  == SetFont(rc)
            cmap == BuildCmap(a.nodes, a.colors, a.cmap)
            nz   == Normalize(a.data, a.normalize)
            pre  == <<"rcParams", "cmap">>
        IN  IF ~nz.ok
            THEN Fail(rc1, fs, n,
                      "AssertionError: Normalization method not implemented.",
                      pre, 0, {}, cmap)
            ELSE
            LET axs  == HeatmapAxes(a.ax, fs, n)
                cur  == Gcf(axs.figs, axs.nfig)
                made == axs.made \cup (Opened(cur.figs) \ Opened(axs.figs))
                drawn == pre \o (IF a.ax = 0 THEN <<"subplots">> ELSE <<>>)
                             \o <<"heatmap", "tick_params", "tight_layout">>
                R(outcome, effects, figs1) ==
                    [rc |-> rc1, figs |-> figs1, nfig |-> cur.nfig,
                     res |-> Result("df2heatmap", a, outcome, effects,
                                    axs.fig, made, cmap, nz.df, NoSize,
                                    NoGrid, rc, fs)]
            IN  IF a.save_path # "None" /\ env.save = "fail"
                THEN R("OSError", drawn, cur.figs)
                ELSE LET saved == IF a.save_path # "None"
                                  THEN Append(drawn, "savefig") ELSE drawn
                     IN  IF a.show_table /\ env.show = "fail"
                         THEN R("RuntimeError", saved, cur.figs)
                         ELSE IF a.show_table
                         THEN R("ok", Append(saved, "show"),
                                AfterShow(cur.figs, env.show))
                         ELSE R("ok", saved, cur.figs)

\* -------------------------------------------------------------- the callers
\* every column of r cells with values in 0..MaxVal
Cols(r) == [1..r -> 0..MaxVal]

\* the columns of example.py, at any length: 0, 1, 2, ... and its reverse,
\* and a column of equal values
Series(kind, r, j) ==
    [i \in 1..r |-> IF kind = "const" THEN 0
                    ELSE IF j % 2 = 1 THEN i - 1 ELSE r - i]

SampleFrames ==
    {[j \in 1..c |-> Series(kind, r, j)] :
        r \in 1..MaxRows, c \in 1..MaxCols, kind \in {"series", "const"}}

\* nodes and colors as example.py passes them, a shorter pair, and the default
NodeArgs == {NoneVal, Some(<<0, 2, 8, 10>>), Some(<<0, 10>>)}
ColorArgs ==
    {NoneVal, Some(<<"green", "white", "white", "red">>), Some(<<"white", "red">>)}

SaveOutcomes(save_path) == IF save_path = "None" THEN {"none"} ELSE {"ok", "fail"}
ShowOutcomes(show_table) ==
    IF show_table THEN {"kept", "closed", "fail"} ELSE {"none"}

Init ==
    /\ rcParams = RcDefault
    /\ figs = <<>>
    /\ nfig = 0
    /\ pc = "idle"
    /\ last = NoCall

Returns(r) ==
    /\ rcParams' = r.rc
    /\ figs' = r.figs
    /\ nfig' = r.nfig
    /\ last' = r.res
    /\ pc' = "returned"

Df2table ==
    /\ pc = "idle"
    /\ nfig < MaxFigs
    /\ \E data \in SampleFrames, col_width \in {18, 10}, row_height \in {4, 5},
          save_path \in {"None", "table.pdf"}, show_table \in BOOLEAN :
         \E save \in SaveOutcomes(save_path), show \in ShowOutcomes(show_table) :
            Returns(Df2tableBody(rcParams, figs, nfig,
                        [data |-> data, col_width |-> col_width,
                         row_height |-> row_height, save_path |-> save_path,
                         show_table |-> show_table],
                        [save |-> save, show |-> show]))

HeatmapCall(data, show_table, nodes, colors, cmap, normalize, save_path, ax) ==
    \E save \in SaveOutcomes(save_path), show \in ShowOutcomes(show_table) :
        Returns(Df2heatmapBody(rcParams, figs, nfig,
                    [data |-> data, show_table |-> show_table, nodes |-> nodes,
                     colors |-> colors, cmap |-> cmap, normalize |-> normalize,
                     save_path |-> save_path, ax |-> ax],
                    [save |-> save, show |-> show]))

Df2heatmap ==
    /\ pc = "idle"
    /\ nfig < MaxFigs
    /\ \E data \in SampleFrames, show_table \in BOOLEAN, nodes \in NodeArgs,
          colors \in ColorArgs, cmap \in {"viridis"},
          normalize \in {"percentile", "range", "Percentile", "zscore"},
          save_path \in {"None", "heatmap.pdf"}, ax \in 0..nfig :
         HeatmapCall(data, show_table, nodes, colors, cmap, normalize,
                     save_path, ax)

\* the caller drops what the call returned
Discard ==
    /\ pc = "returned"
    /\ pc' = "idle"
    /\ last' = NoCall
    /\ UNCHANGED <<rcParams, figs, nfig>>

Next == Df2table \/ Df2heatmap \/ Discard

Spec == Init /\ [][Next]_vars

\* the column read from the last row up, as 'Series B' is to 'Series A'
Reversed(x) == [i \in 1..Len(x) |-> x[Len(x) + 1 - i]]

\* df2heatmap as example.py calls it, on every column of Cols(r): alone, beside
\* its reverse as in example.py, and beside a column of equal values
Df2heatmapOfFrame ==
    /\ pc = "idle"
    /\ nfig < MaxFigs
    /\ \E r \in 1..MaxLen, normalize \in {"percentile", "range"} :
         \E x \in Cols(r) :
            \E data \in {<<x>>, <<x, Reversed(x)>>,
                         <<[i \in 1..r |-> x[1]], x>>} :
                HeatmapCall(data, FALSE, Some(<<0, 2, 8, 10>>),
                            Some(<<"green", "white", "white", "red">>), "rwb",
                            normalize, "None", 0)

NextNorm == Df2heatmapOfFrame \/ Discard

SpecNorm == Init /\ [][NextNorm]_vars

\* ------------------------------------------------------------------ claims
Heatmap == pc = "returned" /\ last.fn = "df2heatmap"
TableCall == pc = "returned" /\ last.fn = "df2table"
Did(step) == \E k \in 1..Len(last.effects) : last.effects[k] = step
LenError == "AssertionError: Length of 'colors' and 'nodes' must be the same"
ModeError == "AssertionError: Normalization method not implemented."
KnownModes == {"percentile", "range"}
Normalized(mode) == Heatmap /\ last.args.normalize = mode /\ Did("heatmap")

\* C1: called with a named colormap and nodes, colors left at None, on a
\* known normalization mode, df2heatmap passes the gradient check, keeps the
\* named colormap and reaches the drawing of the heatmap.
C1_NamedCmapRenders ==
    (Heatmap /\ last.args.nodes.none /\ last.args.colors.none
             /\ last.args.normalize \in KnownModes)
    => /\ last.outcome \notin {"TypeError", LenError}
       /\ last.cmap.name = last.args.cmap
       /\ Did("heatmap")

\* C2: with nodes and colors of different lengths df2heatmap fails with the
\* assertion's error and has done nothing: rcParams and the open figures are
\* as the call found them, no colormap was built, no figure made, nothing
\* saved or shown.
C2_MismatchFailsFirst ==
    (Heatmap /\ ~last.args.nodes.none /\ ~last.args.colors.none
             /\ Len(last.args.nodes.seq) # Len(last.args.colors.seq))
    => /\ last.outcome = LenError
       /\ last.effects = <<>>
       /\ rcParams = last.rc0
       /\ figs = last.figs0
       /\ last.made = {}
       /\ last.cmap = NoCmap

C2_Witness ==
    /\ Heatmap
    /\ ~last.args.nodes.none /\ ~last.args.colors.none
    /\ Len(last.args.nodes.seq) > Len(last.args.colors.seq)
    /\ last.outcome = LenError
    /\ last.rc0 = RcDefault

\* C3: with nodes and colors of equal length, every normalize other than
\* 'percentile' and 'range' fails with the 'not implemented' error, no data
\* normalized, no figure made, nothing drawn, saved or shown.
C3_UnknownModeFails ==
    (Heatmap /\ ~last.args.nodes.none /\ ~last.args.colors.none
             /\ Len(last.args.nodes.seq) = Len(last.args.colors.seq)
             /\ last.args.normalize \notin KnownModes)
    => /\ last.outcome = ModeError
       /\ last.df_plot = <<>>
       /\ last.made = {}
       /\ figs = last.figs0
       /\ \A step \in {"subplots", "heatmap", "savefig", "show"} : ~Did(step)

C3_Witness ==
    /\ Heatmap
    /\ ~last.args.nodes.none /\ ~last.args.colors.none
    /\ Len(last.args.nodes.seq) = Len(last.args.colors.seq)
    /\ last.args.normalize = "Percentile"
    /\ last.args.save_path # "None" /\ last.args.show_table
    /\ last.outcome = ModeError

\* the 1-based rank of cell i in its column, equal values ranked in row order
StableRank(col, i) ==
    NLess(col, i) + Cardinality({j \in 1..i : col[j] = col[i]})

RECURSIVE SumTiedRanks(_, _, _)
\* the sum of the stable ranks of the cells among the first k equal to v
SumTiedRanks(col, v, k) ==
    IF k = 0 THEN 0
    ELSE (IF col[k] = v THEN StableRank(col, k) ELSE 0)
         + SumTiedRanks(col, v, k - 1)

\* C4 as stated: in 'percentile' mode every cell is (rank - 1) / (N - 1) with
\* equal values ranked in row order, and lies in [0,1].
C4_StableRankPercentile ==
    Normalized("percentile") =>
        \A c \in 1..Len(last.args.data) :
            LET col == last.args.data[c] IN
            \A i \in 1..Len(col) :
                /\ QEq(last.df_plot[c][i], StableRank(col, i) - 1, Len(col) - 1)
                /\ InUnit(last.df_plot[c][i])

\* C4 amended: in 'percentile' mode every cell of a column of N >= 2 cells is
\* (rank - 1) / (N - 1), where equal values share one rank, the mean of the
\* ranks row order would give them; it depends on the cell's column alone and
\* lies in [0,1].  A column of one cell gives 0/0.
C4_AverageRankPercentile ==
    Normalized("percentile") =>
        \A c \in 1..Len(last.args.data) :
            LET col == last.args.data[c]
                N   == Len(col)
            IN  \A i \in 1..N :
                LET q == last.df_plot[c][i]
                    tied == NEqual(col, i)
                IN  /\ N >= 2 =>
                          /\ QEq(q, SumTiedRanks(col, col[i], N) - tied,
                                 tied * (N - 1))
                          /\ InUnit(q)
                          /\ \A j \in 1..N : col[j] = col[i] =>
                                 QEq(q, last.df_plot[c][j].num,
                                     last.df_plot[c][j].den)
                    /\ N = 1 => IsNaN(q)

C4_Witness ==
    /\ Normalized("percentile")
    /\ last.args.data = <<<<1, 0, 1>>, <<1, 0, 1>>>>
    /\ QEq(last.df_plot[1][1], 3, 4)
    /\ QEq(last.df_plot[1][3], 3, 4)
    /\ QEq(last.df_plot[2][2], 0, 1)

AllDistinct(col) ==
    \A i, j \in 1..Len(col) : i # j => col[i] # col[j]

\* C5 as stated: for every N >= 1, a column of N distinct values has its
\* minimum at exactly 0 and its maximum at exactly 1.
C5_DistinctEndsAnyLength ==
    Normalized("percentile") =>
        \A c \in 1..Len(last.args.data) :
            LET col == last.args.data[c] IN
            AllDistinct(col) =>
                \A i \in 1..Len(col) :
                    /\ col[i] = ColMin(col) => QEq(last.df_plot[c][i], 0, 1)
                    /\ col[i] = ColMax(col) => QEq(last.df_plot[c][i], 1, 1)

\* C5 amended: for every N >= 2, a column of N distinct values has its minimum
\* at exactly 0 and its maximum at exactly 1; for N = 1 the one cell is 0/0,
\* neither 0 nor 1.
C5_DistinctEnds ==
    Normalized("percentile") =>
        \A c \in 1..Len(last.args.data) :
            LET col == last.args.data[c] IN
            AllDistinct(col) =>
                \A i \in 1..Len(col) :
                    /\ (Len(col) >= 2 /\ col[i] = ColMin(col))
                           => QEq(last.df_plot[c][i], 0, 1)
                    /\ (Len(col) >= 2 /\ col[i] = ColMax(col))
                           => QEq(last.df_plot[c][i], 1, 1)
                    /\ Len(col) = 1 => IsNaN(last.df_plot[c][i])

C5_Witness ==
    /\ Normalized("percentile")
    /\ last.args.data = <<<<2, 0, 1>>, <<1, 0, 2>>>>
    /\ QEq(last.df_plot[1][1], 1, 1)
    /\ QEq(last.df_plot[1][2], 0, 1)
    /\ QEq(last.df_plot[2][3], 1, 1)

\* C6: in 'range' mode every cell is (value - min) / (max - min) of its
\* column; in a column with two different values the minimum is at 0, the
\* maximum at 1 and every cell in [0,1]; in a column of equal values no cell
\* is finite, and the call does not fail for it.
C6_RangeNormalization ==
    Normalized("range") =>
        /\ last.outcome = "ok"
        /\ \A c \in 1..Len(last.args.data) :
            LET col == last.args.data[c]
                lo  == ColMin(col)
                hi  == ColMax(col)
            IN  \A i \in 1..Len(col) :
                LET q == last.df_plot[c][i] IN
                /\ lo # hi =>
                      /\ QEq(q, col[i] - lo, hi - lo)
                      /\ InUnit(q)
                      /\ col[i] = lo => QEq(q, 0, 1)
                      /\ col[i] = hi => QEq(q, 1, 1)
                /\ lo = hi => ~IsFinite(q)

C6_Witness ==
    /\ Normalized("range")
    /\ last.outcome = "ok"
    /\ last.args.data = <<<<1, 1, 1>>, <<1, 2, 0>>>>
    /\ IsNaN(last.df_plot[1][2])
    /\ QEq(last.df_plot[2][1], 1, 2)
    /\ QEq(last.df_plot[2][2], 1, 1)

\* C7: whatever save_path and show_table are, and whether saving or showing
\* succeeds or fails, the figure df2table opened is closed when the call ends.
C7_TableFigureClosed ==
    TableCall => ~IsOpen(last.fig, figs)

\* C8: calls leave the process-wide state as they found it: rcParams' font
\* entries are, after any sequence of calls, what they were before it.
C8_FontConfigUntouched ==
    rcParams = RcDefault

\* C9 as stated: the figure df2heatmap draws on was made by that call and is
\* closed when the call returns.
C9_HeatmapOwnsAndCloses ==
    (Heatmap /\ Did("heatmap"))
    => /\ last.fig \in last.made
       /\ ~IsOpen(last.fig, figs)

\* C9 amended: df2heatmap draws on a figure it made when ax is None and on
\* the figure of the axis it was given otherwise, and it never closes a
\* figure: unless a preview was shown (and closed by the user), every figure
\* open before the call, and the one it made, is open when it returns.
C9_HeatmapLeavesFigureOpen ==
    (Heatmap /\ Did("heatmap"))
    => /\ last.args.ax = 0 => last.fig \in last.made
       /\ last.args.ax # 0 => (last.fig = last.args.ax /\ last.fig \notin last.made)
       /\ ~Did("close")
       /\ ~Did("show") =>
              /\ Opened(last.figs0) \subseteq Opened(figs)
              /\ last.made \subseteq Opened(figs)

C9_Witness ==
    /\ Heatmap /\ Did("heatmap")
    /\ last.args.ax # 0
    /\ last.args.save_path # "None"
    /\ ~last.args.show_table
    /\ last.outcome = "ok"
    /\ IsOpen(last.fig, figs)
    /\ last.made = {}

\* C10: for a dataset of R rows and C columns df2table draws a grid of R+1
\* rows and C+1 columns on a figure (C+1) * col_width wide and
\* (R+1) * row_height high.
C10_TableGrid ==
    TableCall =>
        LET R == Len(last.args.data[1])
            C == Len(last.args.data)
        IN  /\ last.grid.nrows = R + 1
            /\ last.grid.ncols = C + 1
            /\ last.grid.cells = (0..R) \X (0..C)
            /\ last.size.width = (C + 1) * last.args.col_width
            /\ last.size.height = (R + 1) * last.args.row_height

\* the dataset of example.py: 5 rows, 2 columns
C10_Witness ==
    /\ TableCall
    /\ last.args.data = <<<<0, 1, 2, 3, 4>>, <<4, 3, 2, 1, 0>>>>
    /\ last.grid.nrows = 6 /\ last.grid.ncols = 3
    /\ last.size = [width |-> 54, height |-> 24]
====
